---- MODULE Spec2Model ----
(***************************************************************************)
(* PromptHandler (app/src/main/cpp/PromptHandler.cpp): the Microsoft Phi   *)
(* prompt formatter.  One instance holds one flag, m_is_first_prompt, and  *)
(* GetPromptWithTag(user_prompt) returns the tagged prompt, with the       *)
(* system prompt in front on the first call only.                          *)
(*                                                                         *)
(* Strings are TLA+ strings; std::string operator+ is \o.                  *)
(*                                                                         *)
(* Three specifications share the variables:                               *)
(*   Spec       one thread, every call of GetPromptWithTag one action;     *)
(*   SpecAlloc  one thread, the call split at its statements, and the      *)
(*              return statement's string construction may throw           *)
(*              std::bad_alloc;                                            *)
(*   SpecRace   two threads on one instance, the call split at its         *)
(*              statements (the plain bool is read and written by          *)
(*              separate, unsynchronised accesses).                        *)
(***************************************************************************)
EXTENDS Integers, Sequences, FiniteSets, TLC

VARIABLES
    m_is_first_prompt,  \* the instance's flag
    pc,                 \* per thread: where it is inside GetPromptWithTag
    user_prompt,        \* per thread: the argument of its current/last call
    observed,           \* per thread: the value `if (m_is_first_prompt)` read
    outcome,            \* per thread: "none" | "returned" | "bad_alloc"
    result,             \* per thread: the string the call returned
    calls,              \* history: calls started on the instance
    writes,             \* history: assignments made to m_is_first_prompt
    first_outcome       \* history: outcome of the first call that ended

vars == <<m_is_first_prompt, pc, user_prompt, observed, outcome, result,
          calls, writes, first_outcome>>

(* ------------------------------ bounds --------------------------------- *)

\* longest user prompt enumerated over Alphabet
MaxLen == 2
\* longest user prompt enumerated over Alphabet in the two-thread runs
MaxRaceLen == 1
\* calls made on one instance
MaxCalls == 5

(* ----------------------------- constants ------------------------------- *)

c_system_prompt == "<|system|>\nYou are a helpful assistant. Be helpful but brief.<|end|>\n"

c_prompt_prefix == "<|user|>"

c_end_of_prompt == "\n<|end|>\n"

c_assistant_header == "<|assistant|>\n"

(* ------------------------------ strings -------------------------------- *)

Threads == {1, 2}

Alphabet == {"a", "<", "|", "\n"}

RECURSIVE Strs(_)
Strs(n) ==
    IF n = 0 THEN {""}
    ELSE LET p == Strs(n - 1) IN p \cup {s \o c : s \in p, c \in Alphabet}

StartsWith(s, pre) ==
    /\ Len(pre) <= Len(s)
    /\ SubSeq(s, 1, Len(pre)) = pre

EndsWith(s, suf) ==
    /\ Len(suf) <= Len(s)
    /\ SubSeq(s, Len(s) - Len(suf) + 1, Len(s)) = suf

Contains(s, sub) ==
    \E i \in 0..(Len(s) - Len(sub)) : SubSeq(s, i + 1, i + Len(sub)) = sub

\* s without its last character
DropLast(s) == SubSeq(s, 1, Len(s) - 1)

\* s without its first n and its last m characters
Strip(s, n, m) == SubSeq(s, n + 1, Len(s) - m)

\* user prompts a caller passes: every short string over Alphabet, the
\* scenario's two utterances, and texts that are or carry a delimiter
Prompts ==
    Strs(MaxLen) \cup
    { "Hello", "How are you?", "<|end|>",
      c_system_prompt, DropLast(c_system_prompt), "a" \o c_system_prompt \o "a" }

RacePrompts == Strs(MaxRaceLen) \cup {"Hello"}

(* ------------------------- GetPromptWithTag ---------------------------- *)

FirstPrompt_NoEnd(s) ==
    c_system_prompt \o c_prompt_prefix \o s \o c_assistant_header

\* line 27: the first-call return expression
FirstPrompt(s) ==
    c_system_prompt \o c_prompt_prefix \o s \o c_end_of_prompt \o c_assistant_header

LaterPrompt_Sanitized(s) ==
    c_prompt_prefix \o (IF Contains(s, "<|") THEN "" ELSE s)
        \o c_end_of_prompt \o c_assistant_header

LaterPrompt_NoHeader(s) ==
    c_prompt_prefix \o s \o c_end_of_prompt

\* line 29: the later-call return expression
LaterPrompt(s) ==
    c_prompt_prefix \o s \o c_end_of_prompt \o c_assistant_header

Init_FlagFalse ==
    /\ m_is_first_prompt = FALSE
    /\ pc = [t \in Threads |-> "idle"]
    /\ user_prompt = [t \in Threads |-> ""]
    /\ observed = [t \in Threads |-> FALSE]
    /\ outcome = [t \in Threads |-> "none"]
    /\ result = [t \in Threads |-> ""]
    /\ calls = 0
    /\ writes = 0
    /\ first_outcome = "none"

\* PromptHandler::PromptHandler(): m_is_first_prompt(true)
Init ==
    /\ m_is_first_prompt = TRUE
    /\ pc = [t \in Threads |-> "idle"]
    /\ user_prompt = [t \in Threads |-> ""]
    /\ observed = [t \in Threads |-> FALSE]
    /\ outcome = [t \in Threads |-> "none"]
    /\ result = [t \in Threads |-> ""]
    /\ calls = 0
    /\ writes = 0
    /\ first_outcome = "none"

\* what the history records when a call ends with outcome o
Ended(o) == IF first_outcome = "none" THEN o ELSE first_outcome

GetPromptWithTag_KeepFlag(t, s) ==
    /\ calls < MaxCalls
    /\ pc[t] = "idle"
    /\ calls' = calls + 1
    /\ user_prompt' = [user_prompt EXCEPT ![t] = s]
    /\ observed' = [observed EXCEPT ![t] = m_is_first_prompt]
    /\ result' = [result EXCEPT ![t] =
                    IF m_is_first_prompt THEN FirstPrompt(s) ELSE LaterPrompt(s)]
    /\ outcome' = [outcome EXCEPT ![t] = "returned"]
    /\ first_outcome' = Ended("returned")
    /\ UNCHANGED <<m_is_first_prompt, writes, pc>>

GetPromptWithTag_Toggle(t, s) ==
    /\ calls < MaxCalls
    /\ pc[t] = "idle"
    /\ calls' = calls + 1
    /\ user_prompt' = [user_prompt EXCEPT ![t] = s]
    /\ observed' = [observed EXCEPT ![t] = m_is_first_prompt]
    /\ m_is_first_prompt' = ~m_is_first_prompt
    /\ writes' = writes + 1
    /\ result' = [result EXCEPT ![t] =
                    IF m_is_first_prompt THEN FirstPrompt(s) ELSE LaterPrompt(s)]
    /\ outcome' = [outcome EXCEPT ![t] = "returned"]
    /\ first_outcome' = Ended("returned")
    /\ UNCHANGED pc

GetPromptWithTag_RejectEmpty(t, s) ==
    /\ calls < MaxCalls
    /\ pc[t] = "idle"
    /\ calls' = calls + 1
    /\ user_prompt' = [user_prompt EXCEPT ![t] = s]
    /\ observed' = [observed EXCEPT ![t] = m_is_first_prompt]
    /\ IF s = ""
       THEN /\ outcome' = [outcome EXCEPT ![t] = "invalid"]
            /\ result' = [result EXCEPT ![t] = ""]
            /\ first_outcome' = Ended("invalid")
            /\ UNCHANGED <<m_is_first_prompt, writes>>
       ELSE /\ outcome' = [outcome EXCEPT ![t] = "returned"]
            /\ first_outcome' = Ended("returned")
            /\ IF m_is_first_prompt
               THEN /\ m_is_first_prompt' = FALSE
                    /\ writes' = writes + 1
                    /\ result' = [result EXCEPT ![t] = FirstPrompt(s)]
               ELSE /\ result' = [result EXCEPT ![t] = LaterPrompt(s)]
                    /\ UNCHANGED <<m_is_first_prompt, writes>>
    /\ UNCHANGED pc

\* lines 21-30: one whole call by thread t with argument s
GetPromptWithTag(t, s) ==
    /\ calls < MaxCalls
    /\ pc[t] = "idle"
    /\ calls' = calls + 1
    /\ user_prompt' = [user_prompt EXCEPT ![t] = s]
    /\ observed' = [observed EXCEPT ![t] = m_is_first_prompt]
    /\ IF m_is_first_prompt
       THEN /\ m_is_first_prompt' = FALSE
            /\ writes' = writes + 1
            /\ result' = [result EXCEPT ![t] = FirstPrompt(s)]
       ELSE /\ result' = [result EXCEPT ![t] = LaterPrompt(s)]
            /\ UNCHANGED <<m_is_first_prompt, writes>>
    /\ outcome' = [outcome EXCEPT ![t] = "returned"]
    /\ first_outcome' = Ended("returned")
    /\ UNCHANGED pc

Next == \E s \in Prompts : GetPromptWithTag(1, s)

Spec == Init /\ [][Next]_vars

(* ------------------ the call, statement by statement ------------------- *)

\* line 21: thread t enters GetPromptWithTag(s)
Call(t, s) ==
    /\ calls < MaxCalls
    /\ pc[t] = "idle"
    /\ calls' = calls + 1
    /\ pc' = [pc EXCEPT ![t] = "if"]
    /\ user_prompt' = [user_prompt EXCEPT ![t] = s]
    /\ outcome' = [outcome EXCEPT ![t] = "none"]
    /\ result' = [result EXCEPT ![t] = ""]
    /\ UNCHANGED <<m_is_first_prompt, observed, writes, first_outcome>>

TestAndClear(t) ==
    /\ pc[t] = "if"
    /\ observed' = [observed EXCEPT ![t] = m_is_first_prompt]
    /\ m_is_first_prompt' = FALSE
    /\ writes' = IF m_is_first_prompt THEN writes + 1 ELSE writes
    /\ pc' = [pc EXCEPT ![t] = IF m_is_first_prompt THEN "return_first"
                                                     ELSE "return_later"]
    /\ UNCHANGED <<user_prompt, outcome, result, calls, first_outcome>>

\* line 24: if (m_is_first_prompt), a plain read of the flag
TestFlag(t) ==
    /\ pc[t] = "if"
    /\ observed' = [observed EXCEPT ![t] = m_is_first_prompt]
    /\ pc' = [pc EXCEPT ![t] = IF m_is_first_prompt THEN "assign"
                                                     ELSE "return_later"]
    /\ UNCHANGED <<m_is_first_prompt, user_prompt, outcome, result, calls,
                   writes, first_outcome>>

ClearFlag_Deferred(t) ==
    /\ pc[t] = "assign"
    /\ pc' = [pc EXCEPT ![t] = "return_first"]
    /\ UNCHANGED <<m_is_first_prompt, writes, user_prompt, observed, outcome,
                   result, calls, first_outcome>>

\* line 26: m_is_first_prompt = false, a plain write of the flag
ClearFlag(t) ==
    /\ pc[t] = "assign"
    /\ m_is_first_prompt' = FALSE
    /\ writes' = writes + 1
    /\ pc' = [pc EXCEPT ![t] = "return_first"]
    /\ UNCHANGED <<user_prompt, observed, outcome, result, calls, first_outcome>>

\* line 27: the first-call return statement builds and returns the string
ReturnFirst(t) ==
    /\ pc[t] = "return_first"
    /\ result' = [result EXCEPT ![t] = FirstPrompt(user_prompt[t])]
    /\ outcome' = [outcome EXCEPT ![t] = "returned"]
    /\ first_outcome' = Ended("returned")
    /\ pc' = [pc EXCEPT ![t] = "idle"]
    /\ UNCHANGED <<m_is_first_prompt, user_prompt, observed, calls, writes>>

\* line 29: the later-call return statement builds and returns the string
ReturnLater(t) ==
    /\ pc[t] = "return_later"
    /\ result' = [result EXCEPT ![t] = LaterPrompt(user_prompt[t])]
    /\ outcome' = [outcome EXCEPT ![t] = "returned"]
    /\ first_outcome' = Ended("returned")
    /\ pc' = [pc EXCEPT ![t] = "idle"]
    /\ UNCHANGED <<m_is_first_prompt, user_prompt, observed, calls, writes>>

\* lines 27, 29: std::string construction throws std::bad_alloc; the call
\* is left by the exception and nothing is returned
BadAlloc(t) ==
    /\ pc[t] \in {"return_first", "return_later"}
    /\ outcome' = [outcome EXCEPT ![t] = "bad_alloc"]
    /\ first_outcome' = Ended("bad_alloc")
    /\ pc' = [pc EXCEPT ![t] = "idle"]
    /\ UNCHANGED <<m_is_first_prompt, user_prompt, observed, result, calls,
                   writes>>

NextAlloc ==
    \/ \E s \in Prompts : Call(1, s)
    \/ TestFlag(1)
    \/ ClearFlag(1)
    \/ ReturnFirst(1)
    \/ ReturnLater(1)
    \/ BadAlloc(1)

SpecAlloc == Init /\ [][NextAlloc]_vars

NextRace ==
    \E t \in Threads :
        \/ \E s \in RacePrompts : Call(t, s)
        \/ TestFlag(t)
        \/ ClearFlag(t)
        \/ ReturnFirst(t)
        \/ ReturnLater(t)

SpecRace == Init /\ [][NextRace]_vars

(* --------------------- the documented delimiters ----------------------- *)

SYSTEM_PREAMBLE == "<|system|>\nYou are a helpful assistant. Be helpful but brief.<|end|>\n"

USER_PREFIX == "<|user|>"

END_MARKER == "\n<|end|>\n"

ASSISTANT_HEADER == "<|assistant|>\n"

\* thread 1's call has returned a string
Returned == pc[1] = "idle" /\ outcome[1] = "returned"

(* ------------------------------- claims -------------------------------- *)

\* C1: the first call format(s) on a fresh instance returns exactly
\* SYSTEM_PREAMBLE + USER_PREFIX + s + END_MARKER + ASSISTANT_HEADER: it
\* starts with the preamble, ends with the assistant header, and holds
\* USER_PREFIX, s, END_MARKER in a row; format("Hello") is the documented
\* string.
C1_FirstCallFormat ==
    (calls = 1 /\ Returned) =>
        /\ result[1] = SYSTEM_PREAMBLE \o USER_PREFIX \o user_prompt[1]
                          \o END_MARKER \o ASSISTANT_HEADER
        /\ StartsWith(result[1], SYSTEM_PREAMBLE)
        /\ EndsWith(result[1], ASSISTANT_HEADER)
        /\ Contains(result[1], USER_PREFIX \o user_prompt[1] \o END_MARKER)
        /\ (user_prompt[1] = "Hello" =>
              result[1] = "<|system|>\nYou are a helpful assistant. Be helpful but brief.<|end|>\n<|user|>Hello\n<|end|>\n<|assistant|>\n")

C1_Witness ==
    /\ calls = 1
    /\ Returned
    /\ user_prompt[1] = "Hello"
    /\ StartsWith(result[1], SYSTEM_PREAMBLE)

\* C2: every call format(s) other than the first returns exactly
\* USER_PREFIX + s + END_MARKER + ASSISTANT_HEADER, whatever and however
\* many the earlier calls were; format("How are you?") is the documented
\* string.
C2_LaterCallFormat ==
    (calls >= 2 /\ Returned) =>
        /\ result[1] = USER_PREFIX \o user_prompt[1] \o END_MARKER
                          \o ASSISTANT_HEADER
        /\ (user_prompt[1] = "How are you?" =>
              result[1] = "<|user|>How are you?\n<|end|>\n<|assistant|>\n")

C2_Witness ==
    /\ calls >= 3
    /\ Returned
    /\ user_prompt[1] = "How are you?"
    /\ StartsWith(result[1], USER_PREFIX)

\* C3 as stated: for all s1, s2 the second call's result does not contain
\* the system preamble, begins with USER_PREFIX and ends with
\* ASSISTANT_HEADER.
C3_SecondCallNeverHasPreamble ==
    (calls = 2 /\ Returned) =>
        /\ ~Contains(result[1], SYSTEM_PREAMBLE)
        /\ StartsWith(result[1], USER_PREFIX)
        /\ EndsWith(result[1], ASSISTANT_HEADER)

\* C3 amended: the second call's result begins with USER_PREFIX and ends
\* with ASSISTANT_HEADER, and it contains the system preamble exactly when
\* s2 followed by a newline contains it (so never for an s2 without the
\* preamble's text).
C3_SecondCallPreambleOnlyFromInput ==
    (calls = 2 /\ Returned) =>
        /\ StartsWith(result[1], USER_PREFIX)
        /\ EndsWith(result[1], ASSISTANT_HEADER)
        /\ (Contains(result[1], SYSTEM_PREAMBLE)
              <=> Contains(user_prompt[1] \o "\n", SYSTEM_PREAMBLE))

C3_Witness ==
    /\ calls = 2
    /\ Returned
    /\ user_prompt[1] = "<|end|>"
    /\ ~Contains(result[1], SYSTEM_PREAMBLE)

\* C4: for an instance used by one thread, is_first_turn is true if and
\* only if no call to format has been made; it is true after construction.
C4_FlagIffNoCall ==
    m_is_first_prompt <=> (calls = 0)

C4_Witness ==
    /\ calls = 1
    /\ Returned
    /\ ~m_is_first_prompt

\* C5: once is_first_turn is false it stays false: no call sets it back to
\* true, and every call made while it is false takes the non-first branch.
C5_FlagOneWay ==
    [][ ~m_is_first_prompt =>
          /\ ~m_is_first_prompt'
          /\ (calls' # calls => ~observed'[1]) ]_vars

C5_Witness ==
    /\ calls >= 3
    /\ Returned
    /\ ~m_is_first_prompt
    /\ ~observed[1]

\* C7: user_text is inserted verbatim in both branches: taking the fixed
\* prefix and the fixed suffix off the output gives back exactly s, also
\* when s is or contains a delimiter.
C7_VerbatimUserText ==
    Returned =>
        LET pre == IF observed[1] THEN SYSTEM_PREAMBLE \o USER_PREFIX
                                  ELSE USER_PREFIX
            suf == END_MARKER \o ASSISTANT_HEADER
        IN /\ StartsWith(result[1], pre)
           /\ EndsWith(result[1], suf)
           /\ Len(result[1]) >= Len(pre) + Len(suf)
           /\ Strip(result[1], Len(pre), Len(suf)) = user_prompt[1]

C7_Witness ==
    /\ Returned
    /\ ~observed[1]
    /\ user_prompt[1] = "<|end|>"
    /\ Contains(result[1], USER_PREFIX \o "<|end|>" \o END_MARKER)

\* C9: the empty string is accepted with no error outcome: format("")
\* returns the preamble form on the first call and the plain form later,
\* and leaves the flag false like any other input.
C9_EmptyAccepted ==
    (calls >= 1 /\ pc[1] = "idle" /\ user_prompt[1] = "") =>
        /\ outcome[1] = "returned"
        /\ ~m_is_first_prompt
        /\ result[1] =
             IF calls = 1
             THEN "<|system|>\nYou are a helpful assistant. Be helpful but brief.<|end|>\n<|user|>\n<|end|>\n<|assistant|>\n"
             ELSE "<|user|>\n<|end|>\n<|assistant|>\n"

C9_Witness ==
    /\ calls = 1
    /\ Returned
    /\ user_prompt[1] = ""
    /\ ~m_is_first_prompt

\* C8 as stated: the flag is written exactly once, by the first call and
\* after the first formatted prompt has been produced, so whenever the
\* instance is at rest with the flag false the first call has returned its
\* prompt.
C8_FlagClearedAfterFirstPrompt ==
    /\ writes <= 1
    /\ (pc[1] = "idle" /\ ~m_is_first_prompt) => first_outcome = "returned"

\* C10: the flag is set to false before the first call builds its string,
\* so when that construction fails the flag is already false, no prompt
\* with the preamble in front was returned, and every later call returns
\* the form without the preamble in front.
C10_FlagLostOnFailedFirstCall ==
    /\ pc[1] = "return_first" => ~m_is_first_prompt
    /\ first_outcome = "bad_alloc" =>
         /\ ~m_is_first_prompt
         /\ pc[1] # "assign"
         /\ Returned =>
              /\ ~observed[1]
              /\ result[1] = USER_PREFIX \o user_prompt[1] \o END_MARKER
                                \o ASSISTANT_HEADER

C10_Witness ==
    /\ first_outcome = "bad_alloc"
    /\ calls >= 2
    /\ Returned
    /\ StartsWith(result[1], USER_PREFIX)

\* C6: two threads calling format on one instance race on the flag: the
\* read of the flag does not change it (the write of false is a separate,
\* later step), and a prompt carries the preamble in front exactly when
\* its call read true, so both calls can read true and both prompts carry
\* the preamble.
C6_ReadAndWriteAreSeparate ==
    /\ [][ \A t \in Threads :
             (pc[t] = "if" /\ pc'[t] # "if") =>
                 /\ m_is_first_prompt' = m_is_first_prompt
                 /\ observed'[t] = m_is_first_prompt ]_vars
    /\ [](\A t \in Threads :
             (pc[t] = "idle" /\ outcome[t] = "returned") =>
                 (observed[t] <=> StartsWith(result[t], SYSTEM_PREAMBLE)))

C6_Witness ==
    /\ calls = 2
    /\ \A t \in Threads :
          /\ pc[t] = "idle"
          /\ outcome[t] = "returned"
          /\ observed[t]
          /\ StartsWith(result[t], SYSTEM_PREAMBLE)

====
